---- MODULE Spec2Model ----
(***************************************************************************)
(* Model of the autobolt package: create_two_plate_assembly                *)
(* (parametric_cad_solver.py), _calculate_fos_from_build123d               *)
(* (fea_solver.py) and calculate_fos (combined.py).                        *)
(*                                                                         *)
(* Lengths in metres are held as integer multiples of 1e-7 m ("ticks"),    *)
(* the plate gap given in millimetres as an integer multiple of 1e-3 mm.   *)
(* A stress or a strength is an integer number of MPa; the factor of       *)
(* safety is kept as the exact ratio [num, den].                           *)
(***************************************************************************)
EXTENDS Integers, Sequences, FiniteSets, TLC

\* ------------------------------------------------------------------ bounds
\* Largest num_holes the parameter sets draw.
MaxHoles == 2
\* Longest synthetic surface list handed to the FEA pipeline.
MaxSurfaces == 3
\* Number of invocations of the pipeline that may run side by side.
NumInvocations == 2

\* ------------------------------------------------------------------- units
TicksPerMeter == 10 ^ 7
MilliPerMm == 10 ^ 3
MmPerMeter == 10 ^ 3

\* parametric_cad_solver.py:34  gap_m = plate_gap_mm * 1e-4  (1e-4 = 1/10000)
GapFactorInverse == 10000
\* fea_solver.py:72  def y_face(surface_info, target_y, tol=1e-6)
Tol == 10

Invocations == 1 .. NumInvocations

Abs(x) == IF x < 0 THEN -x ELSE x
Min2(a, b) == IF a < b THEN a ELSE b
Max2(a, b) == IF a > b THEN a ELSE b
SetMin(S) == CHOOSE m \in S : \A x \in S : m <= x
SetMax(S) == CHOOSE m \in S : \A x \in S : m >= x
Range(s) == {s[k] : k \in 1 .. Len(s)}

\* -------------------------------------------------------------- parameters
PlateLengths == {2000000, 1000000}
PlateWidths == {1000000, 400000}
PlateThicknesses == {100000}
HoleCounts == 0 .. MaxHoles
HoleRadii == {100000}
EdgeMargins == {538700, 50000}
HoleSpacings == {350000, 1500000}
HoleOffsets == {200000, 200003, 200005, 500000, 800000}
PlateGaps == {10, 1000}

AssemblyParameters ==
    [plate_length_m : PlateLengths, plate_width_m : PlateWidths,
     plate_thickness_m : PlateThicknesses, num_holes : HoleCounts,
     hole_radius_m : HoleRadii, edge_margin_m : EdgeMargins,
     hole_spacing_m : HoleSpacings, hole_offset_from_bottom_m : HoleOffsets,
     plate_gap_mm : PlateGaps]

NoParams == [num_holes |-> -1]

\* The data-model invariant of the parameters as the specification words it
\* (the code states none): lengths positive, the hole row within the plate's
\* length, each hole within the plate's width.
ValidParameters(p) ==
    /\ p.plate_length_m > 0 /\ p.plate_width_m > 0 /\ p.plate_thickness_m > 0
    /\ p.hole_radius_m > 0 /\ p.edge_margin_m > 0 /\ p.hole_spacing_m > 0
    /\ p.hole_offset_from_bottom_m > 0 /\ p.plate_gap_mm > 0
    /\ p.num_holes >= 0
    /\ p.edge_margin_m + (p.num_holes - 1) * p.hole_spacing_m <= p.plate_length_m
    /\ p.hole_offset_from_bottom_m - p.hole_radius_m > 0
    /\ p.hole_offset_from_bottom_m < p.plate_width_m - p.hole_radius_m

\* ---------------------------------------------------------------- geometry
NoSolid == [kind |-> "None"]

\* gap_m = plate_gap_mm * 1e-4
GapToMeters(plate_gap_mm) ==
    (plate_gap_mm * (TicksPerMeter \div GapFactorInverse)) \div MilliPerMm

\* Box(length, width, thickness): centred on the origin.
Box(l, w, t) ==
    [kind |-> "plate",
     x0 |-> -(l \div 2), x1 |-> l - (l \div 2),
     y0 |-> -(w \div 2), y1 |-> w - (w \div 2),
     z0 |-> -(t \div 2), z1 |-> t - (t \div 2),
     holes |-> {}]

\* Shape.move(Pos(dx, dy, dz)), and Shape.locate(Location((dx, dy, dz), axis, 0))
\* as the code's comments read it ("shift in Z", "translate back up in Y") and
\* as it acts on a shape whose own location is the identity (the result of a
\* Boolean cut or of a mirror): a rigid translation.
Translate(s, dx, dy, dz) ==
    [s EXCEPT !.x0 = @ + dx, !.x1 = @ + dx, !.y0 = @ + dy, !.y1 = @ + dy,
              !.z0 = @ + dz, !.z1 = @ + dz,
              !.holes = {<<c[1] + dx, c[2] + dy>> : c \in @}]

\* mirror(shape, about=Plane.XZ): y -> -y
MirrorXZ(s) ==
    [s EXCEPT !.y0 = -s.y1, !.y1 = -s.y0,
              !.holes = {<<c[1], -c[2]>> : c \in @}]

\* x_coords = [x0 - i * hole_spacing_m for i in range(num_holes)]
x_coords(p) ==
    [k \in 1 .. p.num_holes |->
        (p.plate_length_m - p.edge_margin_m) - (k - 1) * p.hole_spacing_m]

\* Plate A: the box moved to span [0,length] x [0,width], each hole subtracted.
plateA(p) ==
    [Translate(Box(p.plate_length_m, p.plate_width_m, p.plate_thickness_m),
               p.plate_length_m \div 2, p.plate_width_m \div 2, 0)
     EXCEPT !.holes = {<<x, p.hole_offset_from_bottom_m>> : x \in Range(x_coords(p))}]

plateB_not_mirrored(a, p, gap_m) ==
    Translate(Translate(a, 0, 0, p.plate_thickness_m + gap_m),
              0, 2 * p.hole_offset_from_bottom_m, 0)
\* Plate B: copy, shift in Z by thickness + gap, mirror in Y, shift back in Y.
plateB(a, p, gap_m) ==
    Translate(MirrorXZ(Translate(a, 0, 0, p.plate_thickness_m + gap_m)),
              0, 2 * p.hole_offset_from_bottom_m, 0)

\* One bolt: Cylinder(radius, height, align CENTER) at Pos(x, y, z).
Bolt(x, y, z, radius, height) ==
    [kind |-> "bolt",
     x0 |-> x - radius, x1 |-> x + radius,
     y0 |-> y - radius, y1 |-> y + radius,
     z0 |-> z - (height \div 2), z1 |-> z + height - (height \div 2),
     holes |-> {}]

\* bp2.part: the bolts of the BuildPart context; None when nothing was added.
bolt_cylinders(p, gap_m) ==
    IF p.num_holes = 0 THEN NoSolid
    ELSE [kind |-> "bolts",
          solids |-> {Bolt(x, p.hole_offset_from_bottom_m,
                           (p.plate_thickness_m \div 2) + (gap_m \div 2),
                           p.hole_radius_m, 2 * p.plate_thickness_m + gap_m)
                      : x \in Range(x_coords(p))}]

\* The solids of an assembly Compound(children=[plateA, plateB, bolt_cylinders]).
Solids(asm) == {asm.plateA, asm.plateB} \cup asm.bolts.solids

\* Bounding box of the assembly along X and Y.
ExtentX(asm) ==
    SetMax({s.x1 : s \in Solids(asm)}) - SetMin({s.x0 : s \in Solids(asm)})
ExtentY(asm) ==
    SetMax({s.y1 : s \in Solids(asm)}) - SetMin({s.y0 : s \in Solids(asm)})

\* ---------------------------------------------------------- call interface
\* autobolt/__init__.py: the names the package binds.
Exports == {"calculate_fos", "_calculate_fos_from_build123d", "create_two_plate_assembly"}

GeometryKeywords ==
    {"plate_length_m", "plate_width_m", "plate_thickness_m", "num_holes",
     "hole_radius_m", "edge_margin_m", "hole_spacing_m",
     "hole_offset_from_bottom_m", "plate_gap_mm"}

\* The parameter names of each function (none has a default value).
Signature(name) ==
    CASE name = "create_two_plate_assembly" -> GeometryKeywords
      [] name = "_calculate_fos_from_build123d" ->
            {"build123d_object", "elastic_modulus", "poissons_ratio",
             "yield_strength", "traction_values"}
      [] name = "calculate_fos" ->
            GeometryKeywords \cup {"elastic_modulus", "poissons_ratio",
                                   "yield_strength", "traction_values"}
      [] OTHER -> {}

\* Attribute lookup on the package, then binding of the keyword arguments.
CallOutcome(name, kwargs) ==
    IF name \notin Exports THEN "AttributeError"
    ELSE IF kwargs # Signature(name) THEN "TypeError"
    ELSE "ok"

NoCall == [name |-> "", kwargs |-> {}]

\* The callers: the two tests of tests/test_everything.py as written, and the
\* same workflows called with the names the package defines.
Workflows ==
    { [id |-> "test_two_function_workflow", entry |-> "two_call",
       first |-> [name |-> "create_two_plate_assembly", kwargs |-> GeometryKeywords],
       second |-> [name |-> "calculate_fos_from_build123d",
                   kwargs |-> {"build123d_object", "E", "nu", "yield_strength",
                               "traction_values"}]],
      [id |-> "test_one_function_workflow", entry |-> "one_call",
       first |-> [name |-> "calculate_fos",
                  kwargs |-> GeometryKeywords \cup {"E", "nu", "yield_strength",
                                                    "traction_values"}],
       second |-> NoCall],
      [id |-> "two_function_by_signature", entry |-> "two_call",
       first |-> [name |-> "create_two_plate_assembly", kwargs |-> GeometryKeywords],
       second |-> [name |-> "_calculate_fos_from_build123d",
                   kwargs |-> Signature("_calculate_fos_from_build123d")]],
      [id |-> "one_function_by_signature", entry |-> "one_call",
       first |-> [name |-> "calculate_fos", kwargs |-> Signature("calculate_fos")],
       second |-> NoCall],
      [id |-> "fos_of_object", entry |-> "object",
       first |-> [name |-> "_calculate_fos_from_build123d",
                  kwargs |-> Signature("_calculate_fos_from_build123d")],
       second |-> NoCall] }

GeometryWorkflows == {w \in Workflows : w.entry # "object"}
ObjectWorkflows == {w \in Workflows : w.entry = "object"}

\* traction_values: one load vector (MPa) for the traction surface.
Tractions == {<<0, 0, 0>>, <<0, -1, 0>>}
YieldStrengths == {200}
\* What the solver may report as the largest von Mises stress under a load.
LoadedStresses == {50, 400}

\* ------------------------------------------------------ surfaces of a shape
\* (tag, ymin, ymax) of a surface: gmsh entity tag and its extent along Y.
Surface(tag, ymin, ymax) == [tag |-> tag, ymin |-> ymin, ymax |-> ymax]

SyntheticYs == {0, 5, 1000}
SyntheticExtents == {e \in SyntheticYs \X SyntheticYs : e[1] <= e[2]}
\* Surface lists of an arbitrary shape handed to the pipeline.
SyntheticSurfaces ==
    UNION { { [k \in 1 .. n |-> Surface(k, f[k][1], f[k][2])]
              : f \in [1 .. n -> SyntheticExtents] } : n \in 1 .. MaxSurfaces }
\* A shape with one flat face at each end of Y and a side face.
PlainSurfaces == <<Surface(1, 0, 0), Surface(2, 0, 1000), Surface(3, 1000, 1000)>>

\* ---------------------------------------------------------------- file system
TmpRoot == [kind |-> "tmproot", id |-> 0]
TempDir(k) == [kind |-> "tempdir", id |-> k]
\* "../.." seen from working directory c
UpTwo(c) == [kind |-> "cwd/../..", id |-> c]
Path(dir, prefix, file) == [dir |-> dir, prefix |-> prefix, file |-> file]
NoPrefix == [kind |-> "", id |-> 0]

WorkingDirs == 1 .. NumInvocations

\* -------------------------------------------------------------------- state
\* call     the caller's inputs of each invocation (fixed once drawn)
\* pc       the statement each invocation is at
\* geom     locals of create_two_plate_assembly: gap_m, plateA, plateB,
\*          bolt_cylinders, assembly, and the geometry-kernel calls made
\* fea      locals of _calculate_fos_from_build123d: tempdir, surface_info,
\*          zero_disp_tags, traction_tags, max_stress
\* result   how the invocation ended: returned value or raised exception
\* log      the stages an invocation has completed, in order
\* fs       the paths that exist on disk
\* accesses every read and write of a path, with the invocation that made it
VARIABLES call, pc, geom, fea, result, log, fs, accesses
vars == <<call, pc, geom, fea, result, log, fs, accesses>>

NoFOS == [num |-> 0, den |-> 0]
NoTag == 0 - 1

IdleCall ==
    [active |-> FALSE, workflow |-> CHOOSE w \in ObjectWorkflows : TRUE,
     params |-> NoParams, surfaces |-> <<>>, traction |-> <<0, 0, 0>>,
     yield_strength |-> 0, cwd |-> 1, faults |-> FALSE]

\* Inputs of a workflow that builds the two-plate assembly.
GeometryCalls ==
    {[active |-> TRUE, workflow |-> w, params |-> p, surfaces |-> <<>>,
      traction |-> t, yield_strength |-> y, cwd |-> 1, faults |-> FALSE]
     : w \in GeometryWorkflows, p \in AssemblyParameters, t \in Tractions,
       y \in YieldStrengths}

\* Inputs of the FEA pipeline called on an arbitrary shape.
ObjectCalls(surfaceLists, tractions, cwds) ==
    {[active |-> TRUE, workflow |-> w, params |-> NoParams, surfaces |-> sf,
      traction |-> t, yield_strength |-> y, cwd |-> c, faults |-> f]
     : w \in ObjectWorkflows, sf \in surfaceLists, t \in tractions,
       y \in YieldStrengths, c \in cwds, f \in BOOLEAN}

InitLocals ==
    /\ pc = [i \in Invocations |-> IF call[i].active THEN "start" ELSE "idle"]
    /\ geom = [i \in Invocations |->
                 [gap_m |-> 0, plateA |-> NoSolid, plateB |-> NoSolid,
                  bolt_cylinders |-> NoSolid, assembly |-> NoSolid,
                  kernel_ops |-> <<>>]]
    /\ fea = [i \in Invocations |->
                [tempdir |-> 0, surface_info |-> <<>>, zero_disp_tags |-> <<>>,
                 traction_tags |-> <<>>, max_stress |-> 0]]
    /\ result = [i \in Invocations |->
                   [status |-> "none", error |-> "", fos |-> NoFOS]]
    /\ log = [i \in Invocations |-> <<>>]
    /\ fs = {}
    /\ accesses = {}

\* One invocation, any workflow, any parameters.
Init ==
    /\ \E c \in GeometryCalls \cup ObjectCalls(SyntheticSurfaces, Tractions, {1}) :
          call = [i \in Invocations |-> IF i = 1 THEN c ELSE IdleCall]
    /\ InitLocals

\* Every invocation runs the pipeline, side by side with the others.
InitConcurrent ==
    /\ call \in [Invocations -> ObjectCalls({PlainSurfaces}, {<<0, -1, 0>>}, WorkingDirs)]
    /\ InitLocals

\* ------------------------------------------------------------------ helpers
Raise(i, err) ==
    /\ pc' = [pc EXCEPT ![i] = "failed"]
    /\ result' = [result EXCEPT ![i] = [status |-> "raised", error |-> err, fos |-> NoFOS]]

Goto(i, stage) == pc' = [pc EXCEPT ![i] = stage]

Completed(i, stage) == log' = [log EXCEPT ![i] = Append(@, stage)]

KernelOps(i, ops) == geom' = [geom EXCEPT ![i].kernel_ops = @ \o ops]

Repeat(n, x) == [k \in 1 .. n |-> x]

\* What an external collaborator (kernel export, mesher, file conversion,
\* solver) may answer for this invocation.
ExternalOutcomes(i) == IF call[i].faults THEN {"ok", "error"} ELSE {"ok"}

Access(i, path, op) == [path |-> path, inv |-> i, op |-> op]

\* ------------------------------------------------------------ entry points
\* The caller's first call: attribute lookup and keyword binding.
Invoke(i) ==
    /\ pc[i] = "start"
    /\ LET w == call[i].workflow
           out == CallOutcome(w.first.name, w.first.kwargs)
       IN IF out = "ok"
          THEN /\ Goto(i, IF w.entry = "object" THEN "mktemp" ELSE "convert_gap")
               /\ result' = [result EXCEPT ![i].status = "running"]
          ELSE Raise(i, out)
    /\ UNCHANGED <<call, geom, fea, log, fs, accesses>>

\* ------------------------------------------- create_two_plate_assembly
\* gap_m = plate_gap_mm * 1e-4
ConvertGap(i) ==
    /\ pc[i] = "convert_gap"
    /\ geom' = [geom EXCEPT ![i].gap_m = GapToMeters(call[i].params.plate_gap_mm)]
    /\ Goto(i, "plate_a")
    /\ UNCHANGED <<call, fea, result, log, fs, accesses>>

\* with BuildPart() as bp: Box, move, one Cylinder(mode=SUBTRACT) per hole
BuildPlateA(i) ==
    /\ pc[i] = "plate_a"
    /\ LET p == call[i].params
       IN geom' = [geom EXCEPT
            ![i].plateA = plateA(p),
            ![i].kernel_ops = @ \o <<"Box", "move">>
                                \o Repeat(p.num_holes, "Cylinder.SUBTRACT")]
    /\ Goto(i, "plate_b")
    /\ UNCHANGED <<call, fea, result, log, fs, accesses>>

\* copy, locate, mirror, locate
BuildPlateB(i) ==
    /\ pc[i] = "plate_b"
    /\ geom' = [geom EXCEPT
            ![i].plateB = plateB(geom[i].plateA, call[i].params, geom[i].gap_m),
            ![i].kernel_ops = @ \o <<"copy", "locate", "mirror", "locate">>]
    /\ Goto(i, "bolts")
    /\ UNCHANGED <<call, fea, result, log, fs, accesses>>

\* with BuildPart() as bp2: one Cylinder per hole
BuildBolts(i) ==
    /\ pc[i] = "bolts"
    /\ geom' = [geom EXCEPT
            ![i].bolt_cylinders = bolt_cylinders(call[i].params, geom[i].gap_m),
            ![i].kernel_ops = @ \o Repeat(call[i].params.num_holes, "Cylinder")]
    /\ Goto(i, "assemble")
    /\ UNCHANGED <<call, fea, result, log, fs, accesses>>

\* Compound(children=[...]): every child must be a shape (a tree node); None
\* is refused.
CompoundOutcome(children) ==
    IF \E k \in 1 .. Len(children) : children[k].kind = "None"
    THEN "TreeError" ELSE "ok"

\* assembly = Compound(children=[plateA, plateB, bolt_cylinders]); return
Assemble(i) ==
    /\ pc[i] = "assemble"
    /\ LET g == geom[i]
           out == CompoundOutcome(<<g.plateA, g.plateB, g.bolt_cylinders>>)
       IN IF out = "ok"
          THEN /\ geom' = [geom EXCEPT
                    ![i].assembly = [kind |-> "assembly", plateA |-> g.plateA,
                                     plateB |-> g.plateB, bolts |-> g.bolt_cylinders],
                    ![i].kernel_ops = Append(@, "Compound")]
               /\ Goto(i, IF call[i].workflow.entry = "two_call"
                          THEN "second_call" ELSE "mktemp")
               /\ UNCHANGED result
          ELSE /\ Raise(i, out)
               /\ UNCHANGED geom
    /\ UNCHANGED <<call, fea, log, fs, accesses>>

\* The caller's second call of the two-function workflow: the FOS of the solid.
SecondCall(i) ==
    /\ pc[i] = "second_call"
    /\ LET w == call[i].workflow
           out == CallOutcome(w.second.name, w.second.kwargs)
       IN IF out = "ok"
          THEN Goto(i, "mktemp") /\ UNCHANGED result
          ELSE Raise(i, out)
    /\ UNCHANGED <<call, geom, fea, log, fs, accesses>>

\* ------------------------------------------- _calculate_fos_from_build123d
\* The Y extents of the faces of a plate: the two faces normal to Y, the four
\* other faces of the box, and one cylindrical face per hole.
PlateExtents(s, radius) ==
    <<<<s.y0, s.y0>>, <<s.y1, s.y1>>>> \o Repeat(4, <<s.y0, s.y1>>)
    \o (IF s.holes = {} THEN <<>>
        ELSE LET hy == (CHOOSE c \in s.holes : TRUE)[2]
             IN Repeat(Cardinality(s.holes), <<hy - radius, hy + radius>>))

\* The faces of each bolt: the lateral face and the two end discs.
BoltExtents(bolts) ==
    IF bolts.solids = {} THEN <<>>
    ELSE LET b == CHOOSE c \in bolts.solids : TRUE
         IN Repeat(3 * Cardinality(bolts.solids), <<b.y0, b.y1>>)

\* gmsh.model.getEntities(2) with each surface's bounding box along Y, for the
\* STEP file of an assembly.
AssemblySurfaces(asm, radius) ==
    LET e == PlateExtents(asm.plateA, radius) \o PlateExtents(asm.plateB, radius)
             \o BoltExtents(asm.bolts)
    IN [k \in 1 .. Len(e) |-> Surface(k, e[k][1], e[k][2])]

\* y_face without its flatness test: any surface that starts at target_y.
YFaceMatches_any_extent(surface_info, target_y, tol) ==
    {k \in 1 .. Len(surface_info) : Abs(surface_info[k].ymin - target_y) < tol}

\* The surfaces y_face accepts: flat within tol, at target_y within tol.
YFaceMatches(surface_info, target_y, tol) ==
    {k \in 1 .. Len(surface_info) :
        /\ Abs(surface_info[k].ymax - surface_info[k].ymin) < tol
        /\ Abs(surface_info[k].ymin - target_y) < tol}

\* y_face: next(...) over the generator, the first match; NoTag stands for the
\* StopIteration of an exhausted generator.
y_face(surface_info, target_y, tol) ==
    LET m == YFaceMatches(surface_info, target_y, tol)
    IN IF m = {} THEN NoTag ELSE surface_info[SetMin(m)].tag

global_ymin(surface_info) == SetMin({surface_info[k].ymin : k \in 1 .. Len(surface_info)})
global_ymax(surface_info) == SetMax({surface_info[k].ymax : k \in 1 .. Len(surface_info)})

\* The statements of the function, in the order the code runs them.
PipelineOrderMeshFirst ==
    <<"mktemp", "export", "import", "mesh", "classify", "convert", "load",
      "solve", "displacement_out", "stress", "fos", "done">>
PipelineOrder ==
    <<"mktemp", "export", "import", "classify", "mesh", "convert", "load",
      "solve", "displacement_out", "stress", "fos", "done">>

StageAfter(stage) ==
    PipelineOrder[1 + CHOOSE k \in 1 .. Len(PipelineOrder) : PipelineOrder[k] = stage]

\* The files of one invocation.
step_file(i) == Path(TempDir(fea[i].tempdir), NoPrefix, "model.step")
msh_file(i) == Path(TempDir(fea[i].tempdir), NoPrefix, "mesh_merged.msh")
xdmf_file_mesh(i) == Path(TempDir(fea[i].tempdir), NoPrefix, "mesh.xdmf")
\* tempdir.name + "surface_tags.xdmf": no separator, so a file of the parent
\* directory whose name starts with the temporary directory's name.
xdmf_file_surface_tags(i) == Path(TmpRoot, TempDir(fea[i].tempdir), "surface_tags.xdmf")
DisplacementFile(i) == Path(UpTwo(call[i].cwd), NoPrefix, "displacement.pvd")
StressFile(i) == Path(UpTwo(call[i].cwd), NoPrefix, "stress.pvd")
DirEntry(k) == Path(TempDir(k), NoPrefix, "")

Writes(i, paths) ==
    /\ fs' = fs \cup paths
    /\ accesses' = accesses \cup {Access(i, q, "w") : q \in paths}
Reads(i, paths) == accesses' = accesses \cup {Access(i, q, "r") : q \in paths}

\* tempdir = tempfile.TemporaryDirectory(): a fresh directory under a random
\* name that no other directory has or has had
MakeTempDir(i) ==
    /\ pc[i] = "mktemp"
    /\ \E k \in 1 .. NumInvocations :
          /\ DirEntry(k) \notin fs
          /\ \A j \in Invocations : fea[j].tempdir # k
          /\ fea' = [fea EXCEPT ![i].tempdir = k]
          /\ fs' = fs \cup {DirEntry(k)}
    /\ Goto(i, StageAfter("mktemp"))
    /\ Completed(i, "mktemp")
    /\ UNCHANGED <<call, geom, result, accesses>>

\* build123d.export_step(build123d_object, step_file)
ExportStep(i) ==
    /\ pc[i] = "export"
    /\ \E out \in ExternalOutcomes(i) :
          IF out = "ok"
          THEN /\ Writes(i, {step_file(i)})
               /\ Goto(i, StageAfter("export"))
               /\ Completed(i, "export")
               /\ UNCHANGED result
          ELSE /\ Raise(i, "ExportError")
               /\ UNCHANGED <<fs, accesses, log>>
    /\ UNCHANGED <<call, geom, fea>>

\* gmsh.initialize() ... addPhysicalGroup: the STEP file is read and the
\* entities of the shape are known.
GmshImport(i) ==
    /\ pc[i] = "import"
    /\ IF step_file(i) \in fs
       THEN /\ Reads(i, {step_file(i)})
            /\ fea' = [fea EXCEPT ![i].surface_info =
                         IF call[i].workflow.entry = "object"
                         THEN call[i].surfaces
                         ELSE AssemblySurfaces(geom[i].assembly,
                                               call[i].params.hole_radius_m)]
            /\ Goto(i, StageAfter("import"))
            /\ Completed(i, "import")
            /\ UNCHANGED result
       ELSE /\ Raise(i, "FileNotFoundError")
            /\ UNCHANGED <<fea, accesses, log>>
    /\ UNCHANGED <<call, geom, fs>>

\* surface_info, global_ymin, global_ymax, the two y_face calls
Classify(i) ==
    /\ pc[i] = "classify"
    /\ LET si == fea[i].surface_info
           trac_pos_tag == y_face(si, global_ymin(si), Tol)
           trac_neg_tag == y_face(si, global_ymax(si), Tol)
       IN IF trac_pos_tag = NoTag \/ trac_neg_tag = NoTag
          THEN Raise(i, "StopIteration") /\ UNCHANGED <<fea, log>>
          ELSE /\ fea' = [fea EXCEPT ![i].zero_disp_tags = <<trac_pos_tag>>,
                                     ![i].traction_tags = <<trac_neg_tag>>]
               /\ Goto(i, StageAfter("classify"))
               /\ Completed(i, "classify")
               /\ UNCHANGED result
    /\ UNCHANGED <<call, geom, fs, accesses>>

\* gmsh.model.mesh.generate(3), removeDuplicateNodes, gmsh.write(msh_file),
\* gmsh.finalize()
GenerateMesh(i) ==
    /\ pc[i] = "mesh"
    /\ \E out \in ExternalOutcomes(i) :
          IF out = "ok"
          THEN /\ Writes(i, {msh_file(i)})
               /\ Goto(i, StageAfter("mesh"))
               /\ Completed(i, "mesh")
               /\ UNCHANGED result
          ELSE /\ Raise(i, "MeshGenerationError")
               /\ UNCHANGED <<fs, accesses, log>>
    /\ UNCHANGED <<call, geom, fea>>

\* meshio.read(msh_file); meshio.write of the tetrahedra and of the triangles
ConvertMesh(i) ==
    /\ pc[i] = "convert"
    /\ \E out \in ExternalOutcomes(i) :
          IF out = "ok" /\ msh_file(i) \in fs
          THEN /\ fs' = fs \cup {xdmf_file_mesh(i), xdmf_file_surface_tags(i)}
               /\ accesses' = accesses \cup
                    {Access(i, msh_file(i), "r"), Access(i, xdmf_file_mesh(i), "w"),
                     Access(i, xdmf_file_surface_tags(i), "w")}
               /\ Goto(i, StageAfter("convert"))
               /\ Completed(i, "convert")
               /\ UNCHANGED result
          ELSE /\ Raise(i, IF msh_file(i) \in fs THEN "ReadError" ELSE "FileNotFoundError")
               /\ UNCHANGED <<fs, accesses, log>>
    /\ UNCHANGED <<call, geom, fea>>

\* XDMFFile(xdmf_file_mesh).read(mesh); XDMFFile(xdmf_file_surface_tags).read(mvc)
LoadMesh(i) ==
    /\ pc[i] = "load"
    /\ IF {xdmf_file_mesh(i), xdmf_file_surface_tags(i)} \subseteq fs
       THEN /\ Reads(i, {xdmf_file_mesh(i), xdmf_file_surface_tags(i)})
            /\ Goto(i, StageAfter("load"))
            /\ Completed(i, "load")
            /\ UNCHANGED result
       ELSE /\ Raise(i, "FileNotFoundError")
            /\ UNCHANGED <<accesses, log>>
    /\ UNCHANGED <<call, geom, fea, fs>>

\* function spaces, boundary conditions, weak form, fenics.solve(a == L, u, bcs)
Solve(i) ==
    /\ pc[i] = "solve"
    /\ \E out \in ExternalOutcomes(i) :
          IF out = "ok"
          THEN /\ Goto(i, StageAfter("solve"))
               /\ Completed(i, "solve")
               /\ UNCHANGED result
          ELSE /\ Raise(i, "SolverError")
               /\ UNCHANGED log
    /\ UNCHANGED <<call, geom, fea, fs, accesses>>

\* fenics.cpp.io.File("../../displacement.pvd") << u
WriteDisplacement(i) ==
    /\ pc[i] = "displacement_out"
    /\ Writes(i, {DisplacementFile(i)})
    /\ Goto(i, StageAfter("displacement_out"))
    /\ Completed(i, "displacement_out")
    /\ UNCHANGED <<call, geom, fea, result>>

\* The largest von Mises stress the solver's displacement gives: none without
\* a load, some positive value under a load.
MaxStressOutcomes(traction) ==
    IF traction = <<0, 0, 0>> THEN {0} ELSE LoadedStresses

\* von_Mises = project(...); File("../../stress.pvd") << von_Mises;
\* max_stress = von_Mises.vector().max()
RecoverStress(i) ==
    /\ pc[i] = "stress"
    /\ \E m \in MaxStressOutcomes(call[i].traction) :
          fea' = [fea EXCEPT ![i].max_stress = m]
    /\ Writes(i, {StressFile(i)})
    /\ Goto(i, StageAfter("stress"))
    /\ Completed(i, "stress")
    /\ UNCHANGED <<call, geom, result>>

\* The temporary directory's finalizer: the directory and what is in it.
RemoveTree(k) == {q \in fs : q.dir = TempDir(k)}

\* FOS = yield_strength / max_stress
FOS(yield_strength, max_stress) ==
    IF max_stress = 0 THEN [status |-> "raised", error |-> "ZeroDivisionError", fos |-> NoFOS]
    ELSE [status |-> "returned", error |-> "",
          fos |-> [num |-> yield_strength, den |-> max_stress]]

\* FOS = yield_strength / max_stress; return FOS.  On return the last
\* reference to tempdir goes and its finalizer removes the directory.
ComputeFOS(i) ==
    /\ pc[i] = "fos"
    /\ LET r == FOS(call[i].yield_strength, fea[i].max_stress)
       IN /\ result' = [result EXCEPT ![i] = r]
          /\ IF r.status = "returned"
             THEN /\ Goto(i, StageAfter("fos"))
                  /\ Completed(i, "fos")
                  /\ fs' = fs \ RemoveTree(fea[i].tempdir)
             ELSE /\ Goto(i, "failed")
                  /\ UNCHANGED <<log, fs>>
    /\ UNCHANGED <<call, geom, fea, accesses>>

\* After a failure the frame, and with it tempdir, lives as long as the
\* traceback; the finalizer runs when that is collected, at the latest when
\* the interpreter exits.
CollectTempDir(i) ==
    /\ pc[i] = "failed"
    /\ fea[i].tempdir # 0
    /\ DirEntry(fea[i].tempdir) \in fs
    /\ fs' = fs \ RemoveTree(fea[i].tempdir)
    /\ UNCHANGED <<call, pc, geom, fea, result, log, accesses>>

\* --------------------------------------------------------- specifications
Pipeline(i) ==
    \/ MakeTempDir(i) \/ ExportStep(i) \/ GmshImport(i) \/ Classify(i)
    \/ GenerateMesh(i) \/ ConvertMesh(i) \/ LoadMesh(i) \/ Solve(i)
    \/ WriteDisplacement(i) \/ RecoverStress(i) \/ ComputeFOS(i)
    \/ CollectTempDir(i)

Next ==
    \E i \in Invocations :
        \/ Invoke(i) \/ ConvertGap(i) \/ BuildPlateA(i) \/ BuildPlateB(i)
        \/ BuildBolts(i) \/ Assemble(i) \/ SecondCall(i)
        \/ Pipeline(i)

Spec == Init /\ [][Next]_vars

NextConcurrent == \E i \in Invocations : Invoke(i) \/ Pipeline(i)

SpecConcurrent == InitConcurrent /\ [][NextConcurrent]_vars

\* ------------------------------------------------------------------ claims
Ended(i) == pc[i] \in {"done", "failed"}
GeometryCall(i) == call[i].active /\ call[i].workflow.entry # "object"
\* create_two_plate_assembly has run past its first statements.
GeometryRan(i) == GeometryCall(i) /\ geom[i].kernel_ops # <<>>
AssemblyReturned(i) == geom[i].assembly.kind = "assembly"
\* a appears in the log before b whenever b appears.
Before(l, a, b) ==
    \A kb \in 1 .. Len(l) : l[kb] = b => \E ka \in 1 .. kb - 1 : l[ka] = a

\* The classifier has been run on the invocation's surfaces.
ClassifierRan(i) == "import" \in Range(log[i]) /\ pc[i] # "classify"
\* Not exactly one flat surface at the global minimum, or at the maximum.
AmbiguousBoundary(si) ==
    \/ Cardinality(YFaceMatches(si, global_ymin(si), Tol)) # 1
    \/ Cardinality(YFaceMatches(si, global_ymax(si), Tol)) # 1

\* C1: whenever zero or more than one surface is flat at the global minimum
\* (or maximum) along the load axis, classification fails with an
\* AmbiguousBoundaryError and never picks one of the matching surfaces.
C1_AmbiguousBoundaryRaises ==
    \A i \in Invocations :
        (ClassifierRan(i) /\ AmbiguousBoundary(fea[i].surface_info))
            => /\ result[i].status = "raised"
               /\ result[i].error = "AmbiguousBoundaryError"
               /\ fea[i].zero_disp_tags = <<>>
               /\ fea[i].traction_tags = <<>>

\* C2: with parameters that violate the data-model invariant,
\* create_two_plate_assembly makes no geometry-kernel call and fails with an
\* InvalidParameterError.
C2_InvalidParametersFailFirst ==
    \A i \in Invocations :
        (GeometryCall(i) /\ ~ValidParameters(call[i].params))
            => /\ geom[i].kernel_ops = <<>>
               /\ (Ended(i) /\ result[i].error \notin {"TypeError", "AttributeError"})
                     => (result[i].status = "raised"
                         /\ result[i].error = "InvalidParameterError")

\* The sentinel for "infinite safety": a positive strength over no stress.
InfiniteSafety(r) == r.status = "returned" /\ r.fos.num > 0 /\ r.fos.den = 0

\* C3: when the largest von Mises stress is zero the FOS computation returns
\* the "infinite safety" sentinel and raises nothing.
C3_ZeroStressGivesSentinel ==
    \A i \in Invocations :
        ("stress" \in Range(log[i]) /\ fea[i].max_stress = 0 /\ pc[i] # "fos")
            => InfiniteSafety(result[i])

\* The bolts' extent along X, with the plate's own [0, plate_length].
SpanX(p) ==
    LET xs == Range(x_coords(p))
    IN Max2(p.plate_length_m, SetMax({x + p.hole_radius_m : x \in xs} \cup {p.plate_length_m}))
       - Min2(0, SetMin({x - p.hole_radius_m : x \in xs} \cup {0}))
\* Every hole lies within the plate along X.
HolesInsideX(p) ==
    \A x \in Range(x_coords(p)) :
        x - p.hole_radius_m >= 0 /\ x + p.hole_radius_m <= p.plate_length_m

\* C4 as stated: for valid parameters the returned assembly is plate_length
\* long along X and plate_width wide along Y.
C4_ExtentIsPlateSize ==
    \A i \in Invocations :
        (GeometryCall(i) /\ ValidParameters(call[i].params) /\ AssemblyReturned(i))
            => /\ ExtentX(geom[i].assembly) = call[i].params.plate_length_m
               /\ ExtentY(geom[i].assembly) = call[i].params.plate_width_m

\* C4 as amended: for valid parameters the returned assembly spans along X
\* the plate's [0, plate_length] joined with the bolts' [x - r, x + r], which
\* is plate_length when every hole lies within the plate along X; along Y it
\* spans plate_width + |plate_width - 2 * hole_offset_from_bottom|, Plate B
\* being Plate A mirrored about the hole row.
C4_ExtentOfLapJoint ==
    \A i \in Invocations :
        (GeometryCall(i) /\ ValidParameters(call[i].params) /\ AssemblyReturned(i))
            => LET p == call[i].params
               IN /\ ExtentX(geom[i].assembly) = SpanX(p)
                  /\ HolesInsideX(p) => ExtentX(geom[i].assembly) = p.plate_length_m
                  /\ ExtentY(geom[i].assembly) =
                        p.plate_width_m
                        + Abs(p.plate_width_m - 2 * p.hole_offset_from_bottom_m)

\* A valid assembly was returned whose hole row is off the plate's centre line.
C4_Witness ==
    \E i \in Invocations :
        /\ GeometryCall(i) /\ ValidParameters(call[i].params) /\ AssemblyReturned(i)
        /\ 2 * call[i].params.hole_offset_from_bottom_m # call[i].params.plate_width_m
        /\ HolesInsideX(call[i].params)

\* C5: for valid parameters, a positive yield strength and a non-zero
\* traction, both public workflows complete and return a finite factor of
\* safety greater than 0.
C5_WorkflowsReturnPositiveFOS ==
    \A i \in Invocations :
        (GeometryCall(i) /\ ValidParameters(call[i].params)
         /\ call[i].yield_strength > 0 /\ call[i].traction # <<0, 0, 0>> /\ Ended(i))
            => /\ result[i].status = "returned"
               /\ result[i].fos.num > 0
               /\ result[i].fos.den > 0

\* A gap in millimetres, in metres: the factor 1e-3.
MillimetersToMeters(plate_gap_mm) ==
    (plate_gap_mm * (TicksPerMeter \div MmPerMeter)) \div MilliPerMm

\* C6: the gap used for Plate B's stacking offset, the bolt height and the
\* bolt centre height is plate_gap_mm / 1000 metres.
C6_GapIsMillimetersOverThousand ==
    \A i \in Invocations :
        (GeometryCall(i) /\ pc[i] \in {"plate_a", "plate_b", "bolts", "assemble"})
            => LET p == call[i].params
                   gap == MillimetersToMeters(p.plate_gap_mm)
                   g == geom[i]
               IN /\ g.gap_m = gap
                  /\ g.plateB.kind = "plate"
                        => g.plateB.z0 - g.plateA.z0 = p.plate_thickness_m + gap
                  /\ g.bolt_cylinders.kind = "bolts"
                        => \A b \in g.bolt_cylinders.solids :
                              /\ b.z1 - b.z0 = 2 * p.plate_thickness_m + gap
                              /\ b.z0 + b.z1 = p.plate_thickness_m + gap

\* C7: no path is written by one invocation and written or read by another.
C7_IsolatedScratchStorage ==
    \A a \in accesses : \A b \in accesses :
        (a.inv # b.inv /\ a.path = b.path) => (a.op = "r" /\ b.op = "r")

\* C8: with num_holes = 0 create_two_plate_assembly does not fail and returns
\* two unperforated plates and no bolt.
C8_NoHolesGivesTwoPlates ==
    \A i \in Invocations :
        (GeometryRan(i) /\ call[i].params.num_holes = 0
         /\ pc[i] \notin {"plate_b", "bolts", "assemble"})
            => /\ AssemblyReturned(i)
               /\ geom[i].assembly.plateA.holes = {}
               /\ geom[i].assembly.plateB.holes = {}
               /\ geom[i].assembly.bolts.kind # "bolts"

TempFiles(i) == {step_file(i), msh_file(i), xdmf_file_mesh(i), xdmf_file_surface_tags(i)}

\* C9: when an invocation has ended, by return or by failure at any step,
\* none of its temporary files is left on disk.
C9_TempFilesDeleted ==
    \A i \in Invocations : Ended(i) => TempFiles(i) \cap fs = {}

AssemblyImported(i) ==
    /\ GeometryCall(i) /\ ValidParameters(call[i].params)
    /\ AssemblyReturned(i) /\ "import" \in Range(log[i])
\* Plate B, which spans [2 * hole_offset - plate_width, 2 * hole_offset] along
\* Y, ends within the classifier's tolerance of Plate A's [0, plate_width].
PlatesAligned(p) == Abs(2 * p.hole_offset_from_bottom_m - p.plate_width_m) < Tol
FlatAtMin(si) == YFaceMatches(si, global_ymin(si), Tol)
FlatAtMax(si) == YFaceMatches(si, global_ymax(si), Tol)

\* C11 as stated: for every valid parameter set the assembly built by
\* create_two_plate_assembly has exactly one flat surface at its global
\* minimum and exactly one at its global maximum along Y, so the fixed and
\* the traction surface are determined uniquely and are different surfaces.
C11_UniqueExtremeFaces ==
    \A i \in Invocations :
        AssemblyImported(i)
            => LET si == fea[i].surface_info
               IN /\ Cardinality(FlatAtMin(si)) = 1
                  /\ Cardinality(FlatAtMax(si)) = 1
                  /\ FlatAtMin(si) \cap FlatAtMax(si) = {}

\* C11 as amended: for valid parameters with 2 * hole_radius at least the
\* tolerance, the returned assembly has exactly one flat surface at each
\* extreme along Y when the hole row is at least the tolerance off the plate's
\* centre line (|2 * hole_offset - plate_width| >= tol), and exactly two at
\* each extreme (one per plate) otherwise; in both cases no surface is at both
\* extremes, and the classifier takes one surface at the minimum as the fixed
\* surface and a different one at the maximum as the traction surface.
C11_UniqueUnlessPlatesAligned ==
    \A i \in Invocations :
        (AssemblyImported(i) /\ 2 * call[i].params.hole_radius_m >= Tol)
            => LET si == fea[i].surface_info
                   n == IF PlatesAligned(call[i].params) THEN 2 ELSE 1
               IN /\ Cardinality(FlatAtMin(si)) = n
                  /\ Cardinality(FlatAtMax(si)) = n
                  /\ FlatAtMin(si) \cap FlatAtMax(si) = {}
                  /\ "classify" \in Range(log[i])
                        => /\ Len(fea[i].zero_disp_tags) = 1
                           /\ Len(fea[i].traction_tags) = 1
                           /\ fea[i].zero_disp_tags[1] \in FlatAtMin(si)
                           /\ fea[i].traction_tags[1] \in FlatAtMax(si)
                           /\ fea[i].zero_disp_tags # fea[i].traction_tags

\* The surfaces of a valid assembly whose hole row is off the centre line
\* have been classified.
C11_Witness ==
    \E i \in Invocations :
        /\ AssemblyImported(i) /\ ~PlatesAligned(call[i].params)
        /\ "classify" \in Range(log[i])
        /\ fea[i].zero_disp_tags # <<>>

\* The surfaces of a valid assembly whose plates end within the tolerance of
\* each other, without coinciding, have been classified.
C11_NearlyAligned ==
    \E i \in Invocations :
        /\ AssemblyImported(i) /\ PlatesAligned(call[i].params)
        /\ 2 * call[i].params.hole_offset_from_bottom_m # call[i].params.plate_width_m
        /\ "classify" \in Range(log[i])

====
